---- MODULE Spec2Model ----
(***************************************************************************)
(* A model of ConversationManager.js: the active message list, the system  *)
(* prompt slot, trimming against the token budget, the completion request  *)
(* and the per-user persisted record.                                      *)
(*                                                                         *)
(* Text is a sequence of one-character strings, so that splitting on       *)
(* whitespace, truncation and trimming are computed and not assumed.       *)
(* Temperatures are in tenths (0.7 is 7).  undefined, null, 0 and "" are   *)
(* the falsy values of an option: an absent option is 0, "" or << >>.      *)
(***************************************************************************)
EXTENDS Integers, Sequences, FiniteSets

VARIABLES
  userId,                \* this.userId ("" when constructed without a user)
  model,                 \* this.model
  messages,              \* this.messages, the active list
  activeConversationId,  \* this.activeConversationId (NullId is null)
  systemSet,             \* this.systemSet
  apiModel,              \* this.apiHandler.model
  temperature,           \* this.temperature
  conversationMaxTokens, \* this.conversationMaxTokens
  responseTokens,        \* this.responseTokens
  conversationName,      \* this.conversationName
  userData,              \* this.userData, the record cached at construction
  agentPrompt,           \* this.agentPrompt
  file,                  \* the persisted document logs/<userId>.json
  config,                \* the content of config.json
  pc,                    \* "idle", or "awaiting" while callAPI is suspended
  request,               \* the request handed to the API Caller, in flight
  preCall,               \* the active list when the last callAPI was invoked
  op,                    \* the last operation that ran
  args,                  \* the content and role it was called with
  err,                   \* the error it raised (NoError when it returned)
  ret,                   \* the text callAPI returned
  operations,            \* how many operations have been invoked
  second                 \* a second ConversationManager of the same user

vars == <<userId, model, messages, activeConversationId, systemSet, apiModel,
          temperature, conversationMaxTokens, responseTokens, conversationName,
          userData, agentPrompt, file, config, pc, request, preCall, op, args,
          err, ret, operations, second>>

----------------------------------------------------------------------------
(* Bounds of the model *)

\* the operations invoked in one behaviour, constructions after the first
\* included
MaxOperations == 4

----------------------------------------------------------------------------
(* Text *)

Whitespace == {" ", "\t", "\n"}

Digits == <<"0", "1", "2", "3", "4", "5", "6", "7", "8", "9">>

NullId == << >>

NaN == -1

NoText == << >>

\* "You are a helpful assistant."
DefaultPrompt ==
  <<"Y","o","u"," ","a","r","e"," ","a"," ","h","e","l","p","f","u","l"," ",
    "a","s","s","i","s","t","a","n","t",".">>

\* "Untitled Conversation"
UntitledConversation ==
  <<"U","n","t","i","t","l","e","d"," ","C","o","n","v","e","r","s","a","t",
    "i","o","n">>

\* "Conversation "
ConversationPrefix ==
  <<"C","o","n","v","e","r","s","a","t","i","o","n"," ">>

\* text.split(/\s+/).length: one piece more than there are maximal runs of
\* whitespace, wherever the runs are
getTokenCount(text) ==
  1 + Cardinality({i \in 1..Len(text) :
                     /\ text[i] \in Whitespace
                     /\ (i = 1 \/ text[i-1] \notin Whitespace)})

RECURSIVE SumTokens(_)
SumTokens(msgs) ==
  IF msgs = << >> THEN 0
  ELSE getTokenCount(Head(msgs).content) + SumTokens(Tail(msgs))

getTotalTokens(msgs) == SumTokens(msgs)

RECURSIVE TrimStart(_)
TrimStart(s) ==
  IF s # << >> /\ Head(s) \in Whitespace THEN TrimStart(Tail(s)) ELSE s

RECURSIVE TrimEnd(_)
TrimEnd(s) ==
  IF s # << >> /\ s[Len(s)] \in Whitespace
  THEN TrimEnd(SubSeq(s, 1, Len(s) - 1)) ELSE s

\* String.prototype.trim
Trim(s) == TrimEnd(TrimStart(s))

\* String.prototype.substring(0, n)
Substring0(s, n) == SubSeq(s, 1, IF Len(s) < n THEN Len(s) ELSE n)

\* Number.prototype.toString
RECURSIVE toString(_)
toString(n) ==
  IF n = NaN THEN <<"N", "a", "N">>
  ELSE IF n < 10 THEN <<Digits[n + 1]>>
  ELSE toString(n \div 10) \o <<Digits[(n % 10) + 1]>>

DigitValue(c) == CHOOSE d \in 0..9 : Digits[d + 1] = c

IsDigit(c) == \E d \in 1..10 : Digits[d] = c

RECURSIVE ParseDigits(_, _)
ParseDigits(s, acc) ==
  IF s = << >> \/ ~IsDigit(Head(s)) THEN acc
  ELSE ParseDigits(Tail(s), 10 * acc + DigitValue(Head(s)))

\* parseInt(s, 10) on an id: the leading digits, NaN when there are none
\* (null, "NaN")
parseInt(s) ==
  IF s = << >> \/ ~IsDigit(Head(s)) THEN NaN ELSE ParseDigits(s, 0)

----------------------------------------------------------------------------
(* JavaScript's a || b on numbers, strings and text *)

OrNum(a, b) == IF a = 0 THEN b ELSE a

OrStr(a, b) == IF a = "" THEN b ELSE a

OrText(a, b) == IF a = << >> THEN b ELSE a

Min(a, b) == IF a < b THEN a ELSE b

----------------------------------------------------------------------------
(* config.json and the module-level defaults *)

DefaultModelName == "gpt-4o-mini"

\* what loadConfig returns when config.json cannot be read
FallbackConfig ==
  [model |-> DefaultModelName, temperature |-> 7,
   conversationMaxTokens |-> 500, responseTokens |-> 100, agent_file |-> ""]

\* the "poet" preset the tests rely on
PoetConfig ==
  [model |-> DefaultModelName, temperature |-> 6,
   conversationMaxTokens |-> 300, responseTokens |-> 75,
   agent_file |-> "agents/poet.txt"]

ConfigDefaults(maxTokens, respTokens) ==
  [model |-> DefaultModelName, temperature |-> 7,
   conversationMaxTokens |-> maxTokens, responseTokens |-> respTokens,
   agent_file |-> ""]

\* the config.json files of the model: none, and one with a small budget
ConfigFiles ==
  { [present |-> FALSE, defaults |-> FallbackConfig, poet |-> PoetConfig],
    [present |-> TRUE, defaults |-> ConfigDefaults(6, 2), poet |-> PoetConfig] }

ModelIds == {"", "poet", "nonexistentModel"}

loadConfig(modelId) ==
  IF ~config.present THEN FallbackConfig
  ELSE IF modelId = "poet" THEN config.poet
  ELSE config.defaults

defaultModel == OrStr(loadConfig("").model, "gpt-4o-mini")

defaultTemperature == OrNum(loadConfig("").temperature, 7)

defaultConversationMaxTokens == OrNum(loadConfig("").conversationMaxTokens, 500)

defaultResponseTokens == OrNum(loadConfig("").responseTokens, 100)

----------------------------------------------------------------------------
(* Logger *)

Message(role, content, stamped) ==
  [role |-> role, content |-> content, timestamp |-> stamped]

EmptyRecord ==
  [kind |-> "json", totalConversations |-> 0, conversations |-> << >>]

AbsentFile ==
  [kind |-> "absent", totalConversations |-> 0, conversations |-> << >>]

CorruptFile ==
  [kind |-> "corrupt", totalConversations |-> 0, conversations |-> << >>]

\* this.userData of a manager constructed without a userId
Undefined ==
  [kind |-> "undefined", totalConversations |-> 0, conversations |-> << >>]

\* a document whose text is the JSON value null
NullFile ==
  [kind |-> "null", totalConversations |-> 0, conversations |-> << >>]

\* JSON.stringify escaping the quote only
JsonEscapeQuoteOnly(c) == IF c = "\"" THEN <<"\\", "\"">> ELSE <<c>>

\* JSON.stringify of one character of a string
JsonEscape(c) ==
  CASE c = "\"" -> <<"\\", "\"">>
    [] c = "\\" -> <<"\\", "\\">>
    [] c = "\n" -> <<"\\", "n">>
    [] c = "\t" -> <<"\\", "t">>
    [] OTHER    -> <<c>>

RECURSIVE JsonEscapeAll(_)
JsonEscapeAll(text) ==
  IF text = << >> THEN << >>
  ELSE JsonEscape(Head(text)) \o JsonEscapeAll(Tail(text))

\* JSON.stringify of a string: the escaped characters between quotes
JsonString(text) == <<"\"">> \o JsonEscapeAll(text) \o <<"\"">>

JsonNull == <<"n", "u", "l", "l">>

\* JSON.stringify of a conversationId: a string, or null
JsonId(id) == IF id = NullId THEN JsonNull ELSE JsonString(id)

\* JSON.parse of the characters between the quotes of a string
RECURSIVE JsonUnescapeAll(_)
JsonUnescapeAll(lit) ==
  IF lit = << >> THEN << >>
  ELSE IF Head(lit) = "\\" /\ Len(lit) >= 2
  THEN <<CASE lit[2] = "n" -> "\n"
           [] lit[2] = "t" -> "\t"
           [] OTHER      -> lit[2]>>
       \o JsonUnescapeAll(SubSeq(lit, 3, Len(lit)))
  ELSE <<Head(lit)>> \o JsonUnescapeAll(Tail(lit))

\* JSON.parse of a string
JsonParseString(lit) == JsonUnescapeAll(SubSeq(lit, 2, Len(lit) - 1))

\* JSON.parse of a conversationId
JsonParseId(lit) == IF lit = JsonNull THEN NullId ELSE JsonParseString(lit)

\* JSON.parse of a document written by saveUserData; roles are words
\* without characters to escape
JsonParse(f) ==
  [kind |-> "json", totalConversations |-> f.totalConversations,
   conversations |->
     [i \in 1..Len(f.conversations) |->
        [conversationId |-> JsonParseId(f.conversations[i].conversationId),
         name |-> JsonParseString(f.conversations[i].name),
         messages |->
           [j \in 1..Len(f.conversations[i].messages) |->
              [f.conversations[i].messages[j] EXCEPT
                 !.content = JsonParseString(@)]]]]]

\* loadUserData without its try/catch
loadUserDataUnguarded(f) ==
  [JsonParse(f) EXCEPT !.kind = f.kind]

\* Logger.loadUserData: the parsed document, or the default structure when
\* reading or parsing fails (no document, text that is not JSON, or JSON
\* that is no object, whose property access throws inside the try)
loadUserData(f) == IF f.kind = "json" THEN JsonParse(f) ELSE EmptyRecord

\* Logger.saveUserData: the document written, JSON.stringify of the record
saveUserData(data) ==
  [kind |-> "json", totalConversations |-> data.totalConversations,
   conversations |->
     [i \in 1..Len(data.conversations) |->
        [conversationId |-> JsonId(data.conversations[i].conversationId),
         name |-> JsonString(data.conversations[i].name),
         messages |->
           [j \in 1..Len(data.conversations[i].messages) |->
              [data.conversations[i].messages[j] EXCEPT
                 !.content = JsonString(@)]]]]]

RECURSIVE MathMax(_)
MathMax(nums) ==
  IF Len(nums) = 1 THEN Head(nums)
  ELSE LET m == MathMax(Tail(nums))
       IN IF Head(nums) = NaN \/ m = NaN THEN NaN
          ELSE IF Head(nums) > m THEN Head(nums) ELSE m

\* generateConversationId numbering by the count of conversations
generateConversationIdByCount(data) == toString(Len(data.conversations) + 1)

generateConversationId(data) ==
  LET highestId ==
        IF Len(data.conversations) > 0
        THEN MathMax([i \in 1..Len(data.conversations) |->
                        parseInt(data.conversations[i].conversationId)])
        ELSE 0
  IN toString(IF highestId = NaN THEN NaN ELSE highestId + 1)

IsUser(m) == m.role = "user"

IsSystem(m) == m.role = "system"

IsNotSystem(m) == m.role # "system"

generateConversationName(msgs) ==
  LET users == SelectSeq(msgs, IsUser)
  IN IF users # << >> THEN Trim(Substring0(Head(users).content, 30))
     ELSE UntitledConversation

\* Array.prototype.find on conversationId: the index of the first match, 0
\* when there is none
FindConversation(data, id) ==
  IF \E i \in 1..Len(data.conversations) :
       data.conversations[i].conversationId = id
  THEN CHOOSE i \in 1..Len(data.conversations) :
         /\ data.conversations[i].conversationId = id
         /\ \A j \in 1..(i-1) : data.conversations[j].conversationId # id
  ELSE 0

----------------------------------------------------------------------------
(* The pure parts of ConversationManager *)

\* the while loop of trimHistory: shift while over budget and not empty
RECURSIVE TrimLoop(_, _)
TrimLoop(msgs, maxTokens) ==
  IF getTotalTokens(msgs) > maxTokens /\ Len(msgs) > 0
  THEN TrimLoop(Tail(msgs), maxTokens)
  ELSE msgs

\* trimHistory removing one message more than the loop does
trimHistoryOneMore(msgs, maxTokens) ==
  LET rest == IF Len(msgs) > 0 /\ msgs[1].role = "system"
              THEN TrimLoop(Tail(msgs), maxTokens)
              ELSE TrimLoop(msgs, maxTokens)
      less == IF rest # << >> THEN Tail(rest) ELSE rest
  IN IF Len(msgs) > 0 /\ msgs[1].role = "system"
     THEN <<msgs[1]>> \o less
     ELSE less

trimHistory(msgs, maxTokens) ==
  IF Len(msgs) > 0 /\ msgs[1].role = "system"
  THEN <<msgs[1]>> \o TrimLoop(Tail(msgs), maxTokens)
  ELSE TrimLoop(msgs, maxTokens)

\* addMessage with unshift in place of push
addMessageUnshift(msgs, content, role, maxTokens) ==
  trimHistory(<<Message(role, content, TRUE)>> \o msgs, maxTokens)

\* addMessage giving every message the default role
addMessageAsUser(msgs, content, role, maxTokens) ==
  trimHistory(Append(msgs, Message("user", content, TRUE)), maxTokens)

\* addMessage trimming before the push, so that the new message stays
addMessageTrimFirst(msgs, content, role, maxTokens) ==
  Append(trimHistory(msgs, maxTokens), Message(role, content, TRUE))

\* addMessage: push, then trimHistory
addMessage(msgs, content, role, maxTokens) ==
  trimHistory(Append(msgs, Message(role, content, TRUE)), maxTokens)

\* the collapse keeping the last system message in place of the first
collapseSystemKeepLast(msgs) ==
  LET systemMessages == SelectSeq(msgs, IsSystem)
  IN IF Len(systemMessages) > 1
     THEN <<systemMessages[Len(systemMessages)]>> \o SelectSeq(msgs, IsNotSystem)
     ELSE msgs

\* the collapse keeping the first system message and nothing else
collapseSystemOnly(msgs) ==
  LET systemMessages == SelectSeq(msgs, IsSystem)
  IN IF Len(systemMessages) > 1 THEN <<systemMessages[1]>> ELSE msgs

\* the duplicate-system collapse at the head of callAPI
collapseSystem(msgs) ==
  LET systemMessages == SelectSeq(msgs, IsSystem)
  IN IF Len(systemMessages) > 1
     THEN <<systemMessages[1]>> \o SelectSeq(msgs, IsNotSystem)
     ELSE msgs

availableTokens(msgs, maxTokens) == maxTokens - getTotalTokens(msgs)

\* the limit without the cap by the available tokens
responseLimitUncapped(respTokens, available) == respTokens

responseLimit(respTokens, available) == Min(respTokens, available)

\* the budget test with < in place of <=
BudgetExceededStrict(limit) == limit < 0

\* the guard of the budget error in callAPI
BudgetExceeded(limit) == limit <= 0

StripTimestamp(m) == [role |-> m.role, content |-> m.content]

getMessagesForAPI(msgs) == [i \in 1..Len(msgs) |-> StripTimestamp(msgs[i])]

countTurns(msgs) ==
  [userMessages |-> Len(SelectSeq(msgs, IsUser)),
   assistantResponses |->
     Len(SelectSeq(msgs, LAMBDA m : m.role = "assistant"))]

\* getHistory returning the system messages whatever the flag
getHistoryUnfiltered(data, activeId, conversationId, onlyNonSystem) ==
  LET i == FindConversation(data, OrText(conversationId, activeId))
  IN IF i = 0 THEN << >> ELSE data.conversations[i].messages

\* getHistory(conversationId = null, onlyNonSystem = false) over the record
\* loaded: conversationId || this.activeConversationId, find, filter
getHistory(data, activeId, conversationId, onlyNonSystem) ==
  LET i == FindConversation(data, OrText(conversationId, activeId))
  IN IF i = 0 THEN << >>
     ELSE IF onlyNonSystem
          THEN SelectSeq(data.conversations[i].messages, IsNotSystem)
          ELSE data.conversations[i].messages

\* loadHistory(conversationId) over the record loaded
loadHistory(data, conversationId) ==
  LET i == FindConversation(data, conversationId)
  IN IF i = 0 THEN << >> ELSE data.conversations[i].messages

----------------------------------------------------------------------------
(* Inputs of the model *)

UserIds == {"", "user123"}

Roles == {"user", "assistant", "system"}

\* "", " " and "hi": 1, 2 and 1 estimated tokens
Contents == { << >>, <<" ">>, <<"h","i">> }

\* the role argument left out of a call of addMessage
Omitted == "undefined"

\* the default parameter role = "user"
DefaultRole(role) == IF role = Omitted THEN "user" ELSE role

\* the calls of addMessage: every content as the user, "hi" in every role
AddMessageCalls ==
  { c \in Contents \X Roles : c[2] = "user" \/ c[1] = <<"h","i">> }

\* what the API Caller answers: "ok" and "a b c d", 1 and 4 estimated tokens
Responses == { <<"o","k">>, <<"a"," ","b"," ","c"," ","d">> }

\* "Be brief", the prompt passed in direct mode
BriefPrompt == <<"B","e"," ","b","r","i","e","f">>

\* "Be a poet", the content of every agent file that exists
AgentFileText == <<"B","e"," ","a"," ","p","o","e","t">>

\* an options object: supplied names the properties the caller wrote; a
\* property that is not supplied is undefined, which || treats as it treats
\* 0 and ""
NoOptions ==
  [agentPrompt |-> NoText, model |-> "", temperature |-> 0,
   conversationMaxTokens |-> 0, responseTokens |-> 0, modelId |-> "",
   agentFilePath |-> "", supplied |-> {}]

DirectOptions ==
  {"agentPrompt", "model", "temperature", "conversationMaxTokens",
   "responseTokens"}

\* the options setSystem is called with, per mode
OptionsOf(mode) ==
  CASE mode = "direct" ->
         { NoOptions,
           [NoOptions EXCEPT !.agentPrompt = BriefPrompt,
                             !.model = "test-model", !.temperature = 5,
                             !.conversationMaxTokens = 3,
                             !.responseTokens = 2,
                             !.supplied = DirectOptions],
           [NoOptions EXCEPT !.agentPrompt = BriefPrompt,
                             !.conversationMaxTokens = 1,
                             !.responseTokens = 1,
                             !.supplied = {"agentPrompt",
                                           "conversationMaxTokens",
                                           "responseTokens"}] }
    [] mode = "config" ->
         { [NoOptions EXCEPT !.modelId = id, !.supplied = {"modelId"}] :
             id \in ModelIds }
    [] mode = "file" ->
         { NoOptions,
           [NoOptions EXCEPT !.agentFilePath = "path/to/agent.txt",
                             !.supplied = {"agentFilePath"}] }
    [] OTHER -> { NoOptions }

Modes == {"direct", "config", "file", "invalidMode"}

\* the ids setActiveConversation is called with
IdChoices == { toString(n) : n \in 1..2 }

\* the value true, given where a conversationId is expected: truthy and
\* strictly equal to no string
BooleanTrue == <<"true">>

\* first arguments of getHistory: none, an id, true
HistoryIds == {NullId, BooleanTrue} \cup IdChoices

NoError == "none"

InvalidModeError == "Invalid mode. Please use 'direct', 'config', or 'file'."

AgentFileError == "Agent file path is missing or invalid in 'file' mode."

\* what setSystem warns of in config mode, the model id left out
AgentFileWarning ==
  "Agent file not found or undefined for model ID. Using default prompt."

BudgetError ==
  "Not enough token space for a response. Clear conversation history to continue."

\* the failure of the API Caller, rethrown by APIHandler.callAPI
ApiError == "OpenAI API Error"

\* reading .conversations of an undefined this.userData
TypeError == "TypeError: Cannot read properties of undefined"

NoRequest ==
  [messages |-> << >>, maxTokens |-> 0, temperature |-> 0, model |-> ""]

\* what the last operation returned: the text of callAPI, the list of
\* getHistory and loadHistory, the counts of countTurns, the number of
\* getTokenCount
NoReturn ==
  [returned |-> FALSE, text |-> NoText, history |-> << >>,
   turns |-> [userMessages |-> 0, assistantResponses |-> 0], count |-> 0]

NoArgs ==
  [content |-> NoText, role |-> "", conversationId |-> NullId,
   onlyNonSystem |-> FALSE, mode |-> "", options |-> NoOptions,
   fileExists |-> FALSE]

----------------------------------------------------------------------------
(* Construction *)

\* new ConversationManager(uid) with document f on disk: loadUserData and
\* startNewConversation when there is a userId, then setDefaultSystem
ConstructedFrom(uid, f) ==
  LET data == IF uid # "" THEN loadUserData(f) ELSE Undefined
      id   == IF uid # "" THEN generateConversationId(data) ELSE NullId
      cfg  == loadConfig("")
  IN /\ userId' = uid
     /\ model' = defaultModel
     /\ userData' = data
     /\ activeConversationId' = id
     /\ conversationName' = IF uid # "" THEN ConversationPrefix \o id ELSE NoText
     /\ messages' = <<Message("system", DefaultPrompt, FALSE)>>
     /\ apiModel' = cfg.model
     /\ temperature' = cfg.temperature
     /\ conversationMaxTokens' = cfg.conversationMaxTokens
     /\ responseTokens' = cfg.responseTokens
     /\ systemSet' = TRUE
     /\ agentPrompt' = NoText

\* no second ConversationManager has been constructed
NoManager ==
  [constructed |-> FALSE, activeConversationId |-> NullId,
   messages |-> << >>, userData |-> Undefined]

\* the state after new ConversationManager(userId) over one of the documents
\* in files
InitFrom(files) ==
  /\ config \in ConfigFiles
  /\ file \in files
  /\ userId \in UserIds
  /\ model = defaultModel
  /\ userData = IF userId # "" THEN loadUserData(file) ELSE Undefined
  /\ activeConversationId =
       IF userId # "" THEN generateConversationId(userData) ELSE NullId
  /\ conversationName =
       IF userId # "" THEN ConversationPrefix \o activeConversationId
       ELSE NoText
  /\ messages = <<Message("system", DefaultPrompt, FALSE)>>
  /\ apiModel = loadConfig("").model
  /\ temperature = loadConfig("").temperature
  /\ conversationMaxTokens = loadConfig("").conversationMaxTokens
  /\ responseTokens = loadConfig("").responseTokens
  /\ systemSet = TRUE
  /\ agentPrompt = NoText
  /\ pc = "idle"
  /\ request = NoRequest
  /\ preCall = << >>
  /\ op = "constructor"
  /\ args = NoArgs
  /\ err = NoError
  /\ ret = NoReturn
  /\ operations = 0
  /\ second = NoManager

\* the first run of the program: nothing is stored yet
Init == InitFrom({AbsentFile})

\* an operation is invoked when no callAPI is pending
Idle == pc = "idle" /\ operations < MaxOperations

\* what every synchronous operation leaves behind
Done(name, error) ==
  /\ op' = name
  /\ args' = NoArgs
  /\ err' = error
  /\ ret' = NoReturn
  /\ preCall' = << >>
  /\ operations' = operations + 1
  /\ UNCHANGED second
  /\ UNCHANGED <<pc, request, config>>

\* a later process run: the manager is constructed again over the document
\* the earlier runs left
Constructor ==
  /\ Idle
  /\ ConstructedFrom(userId, file)
  /\ Done("constructor", NoError)
  /\ UNCHANGED file

----------------------------------------------------------------------------
(* Operations on the active list *)

AddMessage(content, role) ==
  /\ Idle
  /\ messages' = addMessage(messages, content, DefaultRole(role),
                          conversationMaxTokens)
  /\ op' = "addMessage"
  /\ args' = [NoArgs EXCEPT !.content = content, !.role = role]
  /\ err' = NoError
  /\ ret' = NoReturn
  /\ preCall' = << >>
  /\ operations' = operations + 1
  /\ UNCHANGED second
  /\ UNCHANGED <<pc, request, config>>
  /\ UNCHANGED <<userId, model, activeConversationId, systemSet, apiModel,
                 temperature, conversationMaxTokens, responseTokens,
                 conversationName, userData, agentPrompt, file>>

TrimHistory ==
  /\ Idle
  /\ messages' = trimHistory(messages, conversationMaxTokens)
  /\ Done("trimHistory", NoError)
  /\ UNCHANGED <<userId, model, activeConversationId, systemSet, apiModel,
                 temperature, conversationMaxTokens, responseTokens,
                 conversationName, userData, agentPrompt, file>>

AddSystemMessage ==
  /\ Idle
  /\ IF ~systemSet
     THEN /\ messages' = <<Message("system", DefaultPrompt, FALSE)>> \o messages
          /\ systemSet' = TRUE
     ELSE UNCHANGED <<messages, systemSet>>
  /\ Done("addSystemMessage", NoError)
  /\ UNCHANGED <<userId, model, activeConversationId, apiModel, temperature,
                 conversationMaxTokens, responseTokens, conversationName,
                 userData, agentPrompt, file>>

\* the configuration setSystem computes before it applies it
SystemConfig(mode, options) ==
  LET base == [model |-> defaultModel, temperature |-> defaultTemperature,
               conversationMaxTokens |-> defaultConversationMaxTokens,
               responseTokens |-> defaultResponseTokens]
      loaded == loadConfig(options.modelId)
  IN IF mode = "config"
     THEN [model |-> loaded.model, temperature |-> loaded.temperature,
           conversationMaxTokens |-> loaded.conversationMaxTokens,
           responseTokens |-> loaded.responseTokens]
     ELSE [model |-> OrStr(options.model, base.model),
           temperature |-> OrNum(options.temperature, base.temperature),
           conversationMaxTokens |->
             OrNum(options.conversationMaxTokens, base.conversationMaxTokens),
           responseTokens |->
             OrNum(options.responseTokens, base.responseTokens)]

\* setSystem reading the agent file in config mode whether it exists or not
SystemPromptNoFallback(mode, options, fileExists) ==
  CASE mode = "direct" -> OrText(options.agentPrompt, DefaultPrompt)
    [] OTHER -> AgentFileText

\* the prompt setSystem installs; fileExists is fs.existsSync of the agent file
SystemPrompt(mode, options, fileExists) ==
  CASE mode = "direct" -> OrText(options.agentPrompt, DefaultPrompt)
    [] mode = "config" ->
         IF loadConfig(options.modelId).agent_file # "" /\ fileExists
         THEN AgentFileText ELSE DefaultPrompt
    [] OTHER -> AgentFileText

\* setSystem in file mode testing the path only, not the file
SystemErrorPathOnly(mode, options, fileExists) ==
  CASE mode \in {"direct", "config"} -> NoError
    [] mode = "file" ->
         IF options.agentFilePath # "" THEN NoError ELSE AgentFileError
    [] OTHER -> InvalidModeError

\* setSystem throwing its config-mode warning
SystemErrorConfigThrows(mode, options, fileExists) ==
  CASE mode = "direct" -> NoError
    [] mode = "config" ->
         IF loadConfig(options.modelId).agent_file # "" /\ fileExists
         THEN NoError ELSE AgentFileWarning
    [] mode = "file" ->
         IF options.agentFilePath # "" /\ fileExists
         THEN NoError ELSE AgentFileError
    [] OTHER -> InvalidModeError

\* the two throws of setSystem
SystemError(mode, options, fileExists) ==
  CASE mode \in {"direct", "config"} -> NoError
    [] mode = "file" ->
         IF options.agentFilePath # "" /\ fileExists
         THEN NoError ELSE AgentFileError
    [] OTHER -> InvalidModeError

\* the list after the head of setSystem: system messages removed when
\* systemSet
ClearSystem(msgs, isSet) ==
  IF isSet THEN SelectSeq(msgs, IsNotSystem) ELSE msgs

\* the push that installs the system message
InstallSystem(msgs, prompt) == Append(msgs, Message("system", prompt, FALSE))

\* what setSystem does to the manager
SystemUpdate(mode, options, fileExists) ==
  LET cleared == ClearSystem(messages, systemSet)
      cfg     == SystemConfig(mode, options)
      prompt  == SystemPrompt(mode, options, fileExists)
  IN IF SystemError(mode, options, fileExists) # NoError
     THEN /\ messages' = cleared
          /\ systemSet' = FALSE
          /\ UNCHANGED <<apiModel, temperature, conversationMaxTokens,
                         responseTokens, agentPrompt>>
     ELSE /\ agentPrompt' = prompt
          /\ apiModel' = cfg.model
          /\ messages' = InstallSystem(cleared, prompt)
          /\ temperature' = cfg.temperature
          /\ conversationMaxTokens' = cfg.conversationMaxTokens
          /\ responseTokens' = cfg.responseTokens
          /\ systemSet' = TRUE

SetSystem(mode, options, fileExists) ==
  /\ Idle
  /\ SystemUpdate(mode, options, fileExists)
  /\ Done("setSystem", SystemError(mode, options, fileExists))
  /\ UNCHANGED <<userId, model, activeConversationId, conversationName,
                 userData, file>>

----------------------------------------------------------------------------
(* Conversation lifecycle *)

\* startNewConversation keeping the system messages of the list
StartNewKeepingSystem ==
  IF userData.kind = "undefined"
  THEN /\ err' = TypeError
       /\ UNCHANGED <<activeConversationId, messages, conversationName>>
  ELSE /\ err' = NoError
       /\ activeConversationId' = generateConversationId(userData)
       /\ messages' = SelectSeq(messages, IsSystem)
       /\ conversationName' =
            ConversationPrefix \o generateConversationId(userData)

\* startNewConversation reads this.userData, the record cached by the
\* constructor, and throws when there is none
StartNew ==
  IF userData.kind = "undefined"
  THEN /\ err' = TypeError
       /\ UNCHANGED <<activeConversationId, messages, conversationName>>
  ELSE /\ err' = NoError
       /\ activeConversationId' = generateConversationId(userData)
       /\ messages' = << >>
       /\ conversationName' =
            ConversationPrefix \o generateConversationId(userData)

StartNewConversation ==
  /\ Idle
  /\ StartNew
  /\ op' = "startNewConversation"
  /\ args' = NoArgs
  /\ ret' = NoReturn
  /\ preCall' = << >>
  /\ operations' = operations + 1
  /\ UNCHANGED second
  /\ UNCHANGED <<userId, model, systemSet, apiModel, temperature,
                 conversationMaxTokens, responseTokens, userData, agentPrompt,
                 file, config, pc, request>>

\* loadLatestConversation taking the first conversation of the record
LoadFirstConversation ==
  LET data == loadUserData(file)
      n    == Len(data.conversations)
  IN /\ Idle
     /\ IF n > 0
        THEN /\ activeConversationId' = data.conversations[1].conversationId
             /\ messages' = data.conversations[1].messages
             /\ err' = NoError
             /\ UNCHANGED conversationName
        ELSE StartNew
     /\ op' = "loadLatestConversation"
     /\ args' = NoArgs
     /\ ret' = NoReturn
     /\ preCall' = << >>
     /\ operations' = operations + 1
     /\ UNCHANGED second
     /\ UNCHANGED <<userId, model, systemSet, apiModel, temperature,
                    conversationMaxTokens, responseTokens, userData,
                    agentPrompt, file, config, pc, request>>

LoadLatestConversation ==
  LET data == loadUserData(file)
      n    == Len(data.conversations)
  IN /\ Idle
     /\ IF n > 0
        THEN /\ activeConversationId' = data.conversations[n].conversationId
             /\ messages' = data.conversations[n].messages
             /\ err' = NoError
             /\ UNCHANGED conversationName
        ELSE StartNew
     /\ op' = "loadLatestConversation"
     /\ args' = NoArgs
     /\ ret' = NoReturn
     /\ preCall' = << >>
     /\ operations' = operations + 1
     /\ UNCHANGED second
     /\ UNCHANGED <<userId, model, systemSet, apiModel, temperature,
                    conversationMaxTokens, responseTokens, userData,
                    agentPrompt, file, config, pc, request>>

SetActiveConversation(conversationId) ==
  LET data == loadUserData(file)
      i    == FindConversation(data, conversationId)
  IN /\ Idle
     /\ IF i # 0
        THEN /\ activeConversationId' = conversationId
             /\ messages' = data.conversations[i].messages
        ELSE UNCHANGED <<activeConversationId, messages>>
     /\ Done("setActiveConversation", NoError)
     /\ UNCHANGED <<userId, model, systemSet, apiModel, temperature,
                    conversationMaxTokens, responseTokens, conversationName,
                    userData, agentPrompt, file>>

\* deleteHistory dropping every message of the list
deleteHistoryAll(msgs, id) == IF id = NullId THEN msgs ELSE << >>

\* the list deleteHistory leaves: untouched when there is no active
\* conversation id, else the system messages
deleteHistory(msgs, id) ==
  IF id = NullId THEN msgs ELSE SelectSeq(msgs, IsSystem)

\* the history file <logPath>/<id>_history.json: not there, there, or there
\* and not removable
Artifacts == {"absent", "present", "locked"}

\* the history file is never written or read by the manager, and a failing
\* unlink is caught, so the artifact changes nothing of the outcome
DeleteHistory(artifact) ==
  /\ Idle
  /\ messages' = deleteHistory(messages, activeConversationId)
  /\ Done("deleteHistory", NoError)
  /\ UNCHANGED <<userId, model, activeConversationId, systemSet, apiModel,
                 temperature, conversationMaxTokens, responseTokens,
                 conversationName, userData, agentPrompt, file>>

\* saveHistory counting every save as a new conversation
UpsertCounting(data, id, msgs) ==
  LET i == FindConversation(data, id)
  IN IF i # 0
     THEN [data EXCEPT !.conversations[i].messages = msgs,
                       !.totalConversations = @ + 1]
     ELSE [data EXCEPT
             !.conversations =
               Append(@, [conversationId |-> id,
                          name |-> generateConversationName(msgs),
                          messages |-> msgs]),
             !.totalConversations = @ + 1]

\* saveHistory pushing a new entry on every save
UpsertPush(data, id, msgs) ==
  [data EXCEPT
     !.conversations =
       Append(@, [conversationId |-> id,
                  name |-> generateConversationName(msgs),
                  messages |-> msgs]),
     !.totalConversations =
       IF FindConversation(data, id) # 0 THEN @ ELSE @ + 1]

\* saveHistory leaving the messages of an existing entry as they are
UpsertKeepFirst(data, id, msgs) ==
  LET i == FindConversation(data, id)
  IN IF i # 0
     THEN data
     ELSE [data EXCEPT
             !.conversations =
               Append(@, [conversationId |-> id,
                          name |-> generateConversationName(msgs),
                          messages |-> msgs]),
             !.totalConversations = @ + 1]

\* saveHistory pushing a new entry without counting it
UpsertUncounted(data, id, msgs) ==
  LET i == FindConversation(data, id)
  IN IF i # 0
     THEN [data EXCEPT !.conversations[i].messages = msgs]
     ELSE [data EXCEPT
             !.conversations =
               Append(@, [conversationId |-> id,
                          name |-> generateConversationName(msgs),
                          messages |-> msgs])]

\* the record saveHistory writes: the active conversation's messages
\* replaced, or a new entry pushed and totalConversations incremented
Upsert(data, id, msgs) ==
  LET i == FindConversation(data, id)
  IN IF i # 0
     THEN [data EXCEPT !.conversations[i].messages = msgs]
     ELSE [data EXCEPT
             !.conversations =
               Append(@, [conversationId |-> id,
                          name |-> generateConversationName(msgs),
                          messages |-> msgs]),
             !.totalConversations = @ + 1]

SaveHistory ==
  LET data == loadUserData(file)
  IN /\ Idle
     /\ file' = saveUserData(Upsert(data, activeConversationId, messages))
     /\ Done("saveHistory", NoError)
     /\ UNCHANGED <<userId, model, messages, activeConversationId, systemSet,
                    apiModel, temperature, conversationMaxTokens,
                    responseTokens, conversationName, userData, agentPrompt>>

----------------------------------------------------------------------------
(* callAPI: up to the await, and what follows it *)

CallAPI ==
  LET collapsed == collapseSystem(messages)
      available == availableTokens(collapsed, conversationMaxTokens)
      limit     == responseLimit(responseTokens, available)
  IN /\ Idle
     /\ messages' = collapsed
     /\ op' = "callAPI"
     /\ args' = NoArgs
     /\ ret' = NoReturn
     /\ preCall' = messages
     /\ operations' = operations + 1
     /\ UNCHANGED second
     /\ IF BudgetExceeded(limit)
        THEN /\ err' = BudgetError
             /\ UNCHANGED <<pc, request>>
        ELSE /\ err' = NoError
             /\ pc' = "awaiting"
             /\ request' = [messages |-> getMessagesForAPI(collapsed),
                            maxTokens |-> limit,
                            temperature |-> temperature,
                            model |-> apiModel]
     /\ UNCHANGED <<userId, model, activeConversationId, systemSet, apiModel,
                    temperature, conversationMaxTokens, responseTokens,
                    conversationName, userData, agentPrompt, file, config>>

\* the API Caller answers: the answer is added as an assistant message and
\* returned
CallAPIResolve(text) ==
  /\ pc = "awaiting"
  /\ messages' = addMessage(messages, text, "assistant", conversationMaxTokens)
  /\ ret' = [NoReturn EXCEPT !.returned = TRUE, !.text = text]
  /\ err' = NoError
  /\ op' = "callAPI"
  /\ pc' = "idle"
  /\ request' = NoRequest
  /\ UNCHANGED <<userId, model, activeConversationId, systemSet, apiModel,
                 temperature, conversationMaxTokens, responseTokens,
                 conversationName, userData, agentPrompt, file, config,
                 preCall, args, operations,
                 second>>

\* the API Caller fails: callAPI rethrows
CallAPIReject ==
  /\ pc = "awaiting"
  /\ err' = ApiError
  /\ ret' = NoReturn
  /\ op' = "callAPI"
  /\ pc' = "idle"
  /\ request' = NoRequest
  /\ UNCHANGED <<userId, model, messages, activeConversationId, systemSet,
                 apiModel, temperature, conversationMaxTokens, responseTokens,
                 conversationName, userData, agentPrompt, file, config,
                 preCall, args, operations,
                 second>>

----------------------------------------------------------------------------

Next ==
  \/ Constructor
  \/ \E call \in AddMessageCalls : AddMessage(call[1], call[2])
  \/ TrimHistory
  \/ AddSystemMessage
  \/ \E mode \in Modes, fileExists \in BOOLEAN :
       \E options \in OptionsOf(mode) : SetSystem(mode, options, fileExists)
  \/ StartNewConversation
  \/ LoadLatestConversation
  \/ \E id \in IdChoices : SetActiveConversation(id)
  \/ \E artifact \in Artifacts : DeleteHistory(artifact)
  \/ SaveHistory
  \/ CallAPI
  \/ \E text \in Responses : CallAPIResolve(text)
  \/ CallAPIReject

Spec == Init /\ [][Next]_vars

----------------------------------------------------------------------------
(* generateConversationId over stored records: the manager is constructed
   over a document that earlier runs left, and starts conversations *)

MaxIds == 3

\* the decimal numerals of 0..13, written out
DecimalOf(n) ==
  << <<"0">>, <<"1">>, <<"2">>, <<"3">>, <<"4">>, <<"5">>, <<"6">>, <<"7">>,
     <<"8">>, <<"9">>, <<"1","0">>, <<"1","1">>, <<"1","2">>,
     <<"1","3">> >>[n + 1]

\* the numbers the stored conversations are numbered with
StoredIdNumbers == {1, 2, 9, 10, 12}

\* a stored conversation entry numbered n
StoredConversation(n) ==
  [conversationId |-> DecimalOf(n), name |-> UntitledConversation,
   messages |-> << >>]

\* the documents holding up to MaxIds conversations, in any order of ids
StoredIdFiles ==
  { saveUserData([kind |-> "json", totalConversations |-> Len(ns),
                  conversations |->
                    [i \in 1..Len(ns) |-> StoredConversation(ns[i])]]) :
      ns \in UNION { [1..n -> StoredIdNumbers] : n \in 0..MaxIds } }

InitGenerateId == InitFrom(StoredIdFiles) /\ userId = "user123"

NextGenerateId == StartNewConversation

SpecGenerateId == InitGenerateId /\ [][NextGenerateId]_vars

----------------------------------------------------------------------------
(* setSystem seen with its arguments: args keeps the mode, the options and
   whether the agent file exists *)

\* a direct call supplying every option, the temperature as 0; and one
\* supplying 0 for the temperature and for both token limits
ZeroOptions ==
  { [NoOptions EXCEPT !.agentPrompt = BriefPrompt, !.model = "test-model",
                      !.conversationMaxTokens = 3, !.responseTokens = 2,
                      !.supplied = DirectOptions],
    [NoOptions EXCEPT !.agentPrompt = BriefPrompt, !.model = "test-model",
                      !.supplied = DirectOptions] }

\* the calls of setSystem: the agent file matters in config and file mode
SystemCalls ==
  UNION { { <<mode, options, fileExists>> :
              options \in OptionsOf(mode) \cup
                           (IF mode = "direct" THEN ZeroOptions ELSE {}),
              fileExists \in IF mode \in {"config", "file"}
                             THEN BOOLEAN ELSE {FALSE} } :
          mode \in Modes }

SetSystemCall(mode, options, fileExists) ==
  /\ Idle
  /\ SystemUpdate(mode, options, fileExists)
  /\ op' = "setSystem"
  /\ args' = [NoArgs EXCEPT !.mode = mode, !.options = options,
                            !.fileExists = fileExists]
  /\ err' = SystemError(mode, options, fileExists)
  /\ ret' = NoReturn
  /\ preCall' = << >>
  /\ operations' = operations + 1
  /\ UNCHANGED second
  /\ UNCHANGED <<userId, model, activeConversationId, conversationName,
                 userData, file, config, pc, request>>

\* addMessage("hi") and addMessage("hi", "system")
SystemSpecCalls == { <<"h","i">> } \X {"user", "system"}

NextSystem ==
  \/ \E call \in SystemCalls : SetSystemCall(call[1], call[2], call[3])
  \/ \E call \in SystemSpecCalls : AddMessage(call[1], call[2])

SpecSystem == Init /\ [][NextSystem]_vars

----------------------------------------------------------------------------
(* getTokenCount over texts *)

MaxTextLen == 4

\* "This is a test"
TestSentence ==
  <<"T","h","i","s"," ","i","s"," ","a"," ","t","e","s","t">>

\* every text of up to MaxTextLen characters out of a letter, a space and a
\* tab, and the sentence of the test
Texts ==
  UNION { [1..n -> {"a", " ", "\t"}] : n \in 0..MaxTextLen }
    \cup {TestSentence}

GetTokenCount(text) ==
  /\ Idle
  /\ ret' = [NoReturn EXCEPT !.returned = TRUE,
                             !.count = getTokenCount(text)]
  /\ op' = "getTokenCount"
  /\ args' = [NoArgs EXCEPT !.content = text]
  /\ err' = NoError
  /\ preCall' = << >>
  /\ operations' = operations + 1
  /\ UNCHANGED second
  /\ UNCHANGED <<userId, model, messages, activeConversationId, systemSet,
                 apiModel, temperature, conversationMaxTokens,
                 responseTokens, conversationName, userData, agentPrompt,
                 file, config, pc, request>>

NextEstimate == \E text \in Texts : GetTokenCount(text)

SpecEstimate == Init /\ [][NextEstimate]_vars

----------------------------------------------------------------------------
(* The token budget: messages of one and two estimated tokens are added
   under budgets of 1, 3 and more tokens, trimmed and counted *)

\* "a b": not blank, 2 estimated tokens
TwoWords == <<"a", " ", "b">>

\* every content as the user; "hi" and "a b" without a role, as the
\* assistant and as the system
BudgetCalls ==
  ((Contents \cup {TwoWords}) \X {"user"})
    \cup ({<<"h","i">>, TwoWords} \X {Omitted, "assistant", "system"})

CountTurns ==
  /\ Idle
  /\ ret' = [NoReturn EXCEPT !.returned = TRUE,
                             !.turns = countTurns(messages)]
  /\ op' = "countTurns"
  /\ args' = NoArgs
  /\ err' = NoError
  /\ preCall' = << >>
  /\ operations' = operations + 1
  /\ UNCHANGED second
  /\ UNCHANGED <<userId, model, messages, activeConversationId, systemSet,
                 apiModel, temperature, conversationMaxTokens,
                 responseTokens, conversationName, userData, agentPrompt,
                 file, config, pc, request>>

NextBudget ==
  \/ \E call \in BudgetCalls : AddMessage(call[1], call[2])
  \/ TrimHistory
  \/ \E options \in OptionsOf("direct") : SetSystem("direct", options, FALSE)
  \/ CountTurns

SpecBudget == Init /\ [][NextBudget]_vars

----------------------------------------------------------------------------
(* Reading the persisted history: the client saves, deletes and reads back *)

GetHistory(conversationId, onlyNonSystem) ==
  /\ Idle
  /\ ret' = [NoReturn EXCEPT
               !.returned = TRUE,
               !.history = getHistory(loadUserData(file), activeConversationId,
                                      conversationId, onlyNonSystem)]
  /\ args' = [NoArgs EXCEPT !.conversationId = conversationId,
                            !.onlyNonSystem = onlyNonSystem]
  /\ op' = "getHistory"
  /\ err' = NoError
  /\ preCall' = << >>
  /\ operations' = operations + 1
  /\ UNCHANGED second
  /\ UNCHANGED <<userId, model, messages, activeConversationId, systemSet,
                 apiModel, temperature, conversationMaxTokens,
                 responseTokens, conversationName, userData, agentPrompt,
                 file, config, pc, request>>

LoadHistory(conversationId) ==
  /\ Idle
  /\ ret' = [NoReturn EXCEPT
               !.returned = TRUE,
               !.history = loadHistory(loadUserData(file), conversationId)]
  /\ args' = [NoArgs EXCEPT !.conversationId = conversationId]
  /\ op' = "loadHistory"
  /\ err' = NoError
  /\ preCall' = << >>
  /\ operations' = operations + 1
  /\ UNCHANGED second
  /\ UNCHANGED <<userId, model, messages, activeConversationId, systemSet,
                 apiModel, temperature, conversationMaxTokens,
                 responseTokens, conversationName, userData, agentPrompt,
                 file, config, pc, request>>

NextHistory ==
  \/ Constructor
  \/ \E call \in AddMessageCalls : AddMessage(call[1], call[2])
  \/ StartNewConversation
  \/ \E id \in IdChoices : SetActiveConversation(id)
  \/ \E artifact \in Artifacts : DeleteHistory(artifact)
  \/ SaveHistory
  \/ \E id \in HistoryIds, onlyNonSystem \in BOOLEAN :
       GetHistory(id, onlyNonSystem)
  \/ \E id \in IdChoices : LoadHistory(id)

SpecHistory == Init /\ [][NextHistory]_vars

----------------------------------------------------------------------------
(* The Logger used on its own: saveUserData and loadUserData of one user's
   document; userData is the record in the caller's hands *)

MaxStoredConversations == 1

MaxStoredMessages == 2

\* messages whose content has characters JSON escapes
StoredMessages ==
  { Message("system", <<"a", "\"", "b">>, FALSE),
    Message("user", <<"\\", "n">>, TRUE),
    Message("assistant", <<"\n">>, TRUE),
    Message("user", <<"h", "i">>, TRUE) }

StoredLists == UNION { [1..n -> StoredMessages] : n \in 0..MaxStoredMessages }

\* the records handed to saveUserData: conversations numbered from 1, named
\* as saveHistory names them
StoredRecords ==
  { [kind |-> "json", totalConversations |-> Len(ls),
     conversations |->
       [i \in 1..Len(ls) |->
          [conversationId |-> toString(i),
           name |-> generateConversationName(ls[i]),
           messages |-> ls[i]]]] :
      ls \in UNION { [1..n -> StoredLists] :
                       n \in 0..MaxStoredConversations } }

\* what is on disk before the first save
UnsavedFiles == {AbsentFile, CorruptFile, NullFile}

InitStore ==
  /\ config \in ConfigFiles
  /\ file \in UnsavedFiles
  /\ userData \in StoredRecords
  /\ userId = "user123"
  /\ model = defaultModel
  /\ activeConversationId = NullId
  /\ conversationName = NoText
  /\ messages = << >>
  /\ apiModel = loadConfig("").model
  /\ temperature = loadConfig("").temperature
  /\ conversationMaxTokens = loadConfig("").conversationMaxTokens
  /\ responseTokens = loadConfig("").responseTokens
  /\ systemSet = FALSE
  /\ agentPrompt = NoText
  /\ pc = "idle"
  /\ request = NoRequest
  /\ preCall = << >>
  /\ op = "Logger"
  /\ args = NoArgs
  /\ err = NoError
  /\ ret = NoReturn
  /\ operations = 0
  /\ second = NoManager

LoggerSaveUserData ==
  /\ Idle
  /\ file' = saveUserData(userData)
  /\ Done("saveUserData", NoError)
  /\ UNCHANGED <<userId, model, messages, activeConversationId, systemSet,
                 apiModel, temperature, conversationMaxTokens,
                 responseTokens, conversationName, userData, agentPrompt>>

LoggerLoadUserData ==
  /\ Idle
  /\ userData' = loadUserData(file)
  /\ Done("loadUserData", NoError)
  /\ UNCHANGED <<userId, model, messages, activeConversationId, systemSet,
                 apiModel, temperature, conversationMaxTokens,
                 responseTokens, conversationName, file, agentPrompt>>

NextStore == LoggerSaveUserData \/ LoggerLoadUserData

SpecStore == InitStore /\ [][NextStore]_vars

----------------------------------------------------------------------------
(* Two ConversationManager instances of one user over one document: the
   second is constructed while the first is in use, each adds messages to
   its own list, and each saves into logs/<userId>.json *)

\* the document of a user with the conversation "1" stored
OneConversationFile ==
  saveUserData([kind |-> "json", totalConversations |-> 1,
                conversations |-> <<StoredConversation(1)>>])

InitTwoWriters == InitFrom({AbsentFile, OneConversationFile})

\* addMessage("hi") and addMessage("hi", "assistant")
TwoWriterCalls == { <<"h","i">> } \X {"user", "assistant"}

\* what an operation of the second instance leaves behind: the first
\* instance has its own fields
SecondDone(name) ==
  /\ op' = name
  /\ args' = NoArgs
  /\ err' = NoError
  /\ ret' = NoReturn
  /\ preCall' = << >>
  /\ operations' = operations + 1
  /\ UNCHANGED <<userId, model, messages, activeConversationId, systemSet,
                 apiModel, temperature, conversationMaxTokens,
                 responseTokens, conversationName, userData, agentPrompt,
                 config, pc, request>>

\* new ConversationManager(userId) a second time, in the same run
SecondConstructor ==
  LET data == IF userId # "" THEN loadUserData(file) ELSE Undefined
      id   == IF userId # "" THEN generateConversationId(data) ELSE NullId
  IN /\ Idle
     /\ ~second.constructed
     /\ second' = [constructed |-> TRUE,
                   activeConversationId |-> id,
                   messages |-> <<Message("system", DefaultPrompt, FALSE)>>,
                   userData |-> data]
     /\ SecondDone("second.constructor")
     /\ UNCHANGED file

SecondAddMessage(content, role) ==
  /\ Idle
  /\ second.constructed
  /\ second' = [second EXCEPT
                  !.messages =
                    addMessage(@, content, DefaultRole(role),
                               loadConfig("").conversationMaxTokens)]
  /\ SecondDone("second.addMessage")
  /\ UNCHANGED file

SecondSaveHistory ==
  LET data == loadUserData(file)
  IN /\ Idle
     /\ second.constructed
     /\ file' = saveUserData(Upsert(data, second.activeConversationId,
                                    second.messages))
     /\ SecondDone("second.saveHistory")
     /\ UNCHANGED second

NextTwoWriters ==
  \/ \E c \in TwoWriterCalls : AddMessage(c[1], c[2])
  \/ SaveHistory
  \/ SecondConstructor
  \/ \E c \in TwoWriterCalls : SecondAddMessage(c[1], c[2])
  \/ SecondSaveHistory

SpecTwoWriters == InitTwoWriters /\ [][NextTwoWriters]_vars

----------------------------------------------------------------------------
(* trimHistory called by the client after the budget was lowered: setSystem
   changes conversationMaxTokens without trimming, so the list a later
   trimHistory finds can be over budget by several messages *)

\* trimHistory(), with the list it was called on kept for the properties
TrimHistoryCall ==
  /\ Idle
  /\ messages' = trimHistory(messages, conversationMaxTokens)
  /\ op' = "trimHistory"
  /\ args' = NoArgs
  /\ err' = NoError
  /\ ret' = NoReturn
  /\ preCall' = messages
  /\ operations' = operations + 1
  /\ UNCHANGED second
  /\ UNCHANGED <<userId, model, activeConversationId, systemSet, apiModel,
                 temperature, conversationMaxTokens, responseTokens,
                 conversationName, userData, agentPrompt, file, config, pc,
                 request>>

NextTrim ==
  \/ \E call \in BudgetCalls : AddMessage(call[1], call[2])
  \/ TrimHistoryCall
  \/ \E options \in OptionsOf("direct") : SetSystem("direct", options, FALSE)

SpecTrim == Init /\ [][NextTrim]_vars

----------------------------------------------------------------------------
(* Operations invoked while callAPI is suspended at its await: the client
   does not wait for the promise, and the synchronous methods run to
   completion on the same manager before the API Caller answers *)

\* an operation is invoked while a callAPI is pending
Suspended == pc = "awaiting" /\ operations < MaxOperations

\* what an operation invoked during the wait leaves behind: the pending
\* call keeps its request, and the list and the conversation id it was
\* invoked on stay on record
Interleaved(name, error) ==
  /\ op' = name
  /\ err' = error
  /\ ret' = NoReturn
  /\ operations' = operations + 1
  /\ UNCHANGED <<pc, request, preCall, args, config, second>>

\* callAPI up to the await, the conversation it was invoked on kept for the
\* properties
CallAPISend ==
  LET collapsed == collapseSystem(messages)
      available == availableTokens(collapsed, conversationMaxTokens)
      limit     == responseLimit(responseTokens, available)
  IN /\ Idle
     /\ messages' = collapsed
     /\ op' = "callAPI"
     /\ args' = [NoArgs EXCEPT !.conversationId = activeConversationId]
     /\ ret' = NoReturn
     /\ preCall' = messages
     /\ operations' = operations + 1
     /\ UNCHANGED second
     /\ IF BudgetExceeded(limit)
        THEN /\ err' = BudgetError
             /\ UNCHANGED <<pc, request>>
        ELSE /\ err' = NoError
             /\ pc' = "awaiting"
             /\ request' = [messages |-> getMessagesForAPI(collapsed),
                            maxTokens |-> limit,
                            temperature |-> temperature,
                            model |-> apiModel]
     /\ UNCHANGED <<userId, model, activeConversationId, systemSet, apiModel,
                    temperature, conversationMaxTokens, responseTokens,
                    conversationName, userData, agentPrompt, file, config>>

AddMessageDuringCall(content, role) ==
  /\ Suspended
  /\ messages' = addMessage(messages, content, DefaultRole(role),
                          conversationMaxTokens)
  /\ Interleaved("addMessage", NoError)
  /\ UNCHANGED <<userId, model, activeConversationId, systemSet, apiModel,
                 temperature, conversationMaxTokens, responseTokens,
                 conversationName, userData, agentPrompt, file>>

StartNewConversationDuringCall ==
  /\ Suspended
  /\ StartNew
  /\ op' = "startNewConversation"
  /\ ret' = NoReturn
  /\ operations' = operations + 1
  /\ UNCHANGED <<pc, request, preCall, args, config, second>>
  /\ UNCHANGED <<userId, model, systemSet, apiModel, temperature,
                 conversationMaxTokens, responseTokens, userData, agentPrompt,
                 file>>

SetActiveConversationDuringCall(conversationId) ==
  LET data == loadUserData(file)
      i    == FindConversation(data, conversationId)
  IN /\ Suspended
     /\ IF i # 0
        THEN /\ activeConversationId' = conversationId
             /\ messages' = data.conversations[i].messages
        ELSE UNCHANGED <<activeConversationId, messages>>
     /\ Interleaved("setActiveConversation", NoError)
     /\ UNCHANGED <<userId, model, systemSet, apiModel, temperature,
                    conversationMaxTokens, responseTokens, conversationName,
                    userData, agentPrompt, file>>

DeleteHistoryDuringCall ==
  /\ Suspended
  /\ messages' = deleteHistory(messages, activeConversationId)
  /\ Interleaved("deleteHistory", NoError)
  /\ UNCHANGED <<userId, model, activeConversationId, systemSet, apiModel,
                 temperature, conversationMaxTokens, responseTokens,
                 conversationName, userData, agentPrompt, file>>

InitAwait == InitFrom({AbsentFile, OneConversationFile})

NextAwait ==
  \/ \E call \in TwoWriterCalls : AddMessage(call[1], call[2])
  \/ CallAPISend
  \/ \E text \in Responses : CallAPIResolve(text)
  \/ CallAPIReject
  \/ \E call \in TwoWriterCalls : AddMessageDuringCall(call[1], call[2])
  \/ StartNewConversationDuringCall
  \/ \E id \in IdChoices : SetActiveConversationDuringCall(id)
  \/ DeleteHistoryDuringCall

SpecAwait == InitAwait /\ [][NextAwait]_vars

----------------------------------------------------------------------------
(* Vocabulary of the properties *)

\* the step is an invocation of the operation called name
Ran(name) == op' = name /\ operations' = operations + 1

\* the step is the return of a pending callAPI
Returned == pc = "awaiting" /\ pc' = "idle"

SystemsOf(msgs) == SelectSeq(msgs, IsSystem)

OthersOf(msgs) == SelectSeq(msgs, IsNotSystem)

AssistantsOf(msgs) == SelectSeq(msgs, LAMBDA m : m.role = "assistant")

IsPrefix(s, t) == Len(s) <= Len(t) /\ SubSeq(t, 1, Len(s)) = s

\* the first system message of msgs, which has one
FirstSystem(msgs) ==
  msgs[CHOOSE i \in 1..Len(msgs) :
         /\ msgs[i].role = "system"
         /\ \A j \in 1..(i-1) : msgs[j].role # "system"]

\* msgs with its duplicate system messages collapsed to the first one
Collapsed(msgs) ==
  IF Len(SystemsOf(msgs)) <= 1 THEN msgs
  ELSE <<FirstSystem(msgs)>> \o OthersOf(msgs)

EmptyContentError == "Message content cannot be empty."

----------------------------------------------------------------------------
(* C1: in every reachable state the active list holds at most one system   *)
(* message, and a system message it holds is at index 0.                   *)
C1_OneSystemAtHead ==
  /\ Len(SystemsOf(messages)) <= 1
  /\ \A i \in 1..Len(messages) : messages[i].role = "system" => i = 1

(* C2: after a successful setSystem the list holds exactly one system      *)
(* message, at index 0, and the non-system messages are those of before in *)
(* the same order.                                                         *)
C2_SetSystemInstallsAtHead ==
  [][ (Ran("setSystem") /\ err' = NoError)
        => /\ Len(SystemsOf(messages')) = 1
           /\ messages'[1].role = "system"
           /\ OthersOf(messages') = OthersOf(messages) ]_vars

(* C3: trimHistory on a list whose index 0 is a system message leaves the  *)
(* estimated total of the whole list, system message included, within      *)
(* conversationMaxTokens, or leaves only the system message.               *)
C3_TrimWithinBudget ==
  [][ (Ran("trimHistory") /\ messages # << >> /\ messages[1].role = "system")
        => \/ getTotalTokens(messages') <= conversationMaxTokens
           \/ Len(messages') = 1 ]_vars

(* C4: trimming, run by trimHistory, by addMessage or by the addMessage of *)
(* callAPI, removes no system message: the system messages of before are   *)
(* still there, in order, afterwards.                                      *)
C4_TrimKeepsSystem ==
  [][ (Ran("trimHistory") \/ Ran("addMessage") \/ (Returned /\ ret'.returned))
        => IsPrefix(SystemsOf(messages), SystemsOf(messages')) ]_vars

(* C5: addMessage with empty or whitespace-only content fails with         *)
(* 'Message content cannot be empty.' and leaves the active list as it was.*)
C5_BlankContentRejected ==
  [][ (Ran("addMessage") /\ Trim(args'.content) = << >>)
        => err' = EmptyContentError /\ messages' = messages ]_vars

C7_NoHeadroomNoCall ==
  [][ (Ran("callAPI") /\ pc = "idle"
         /\ conversationMaxTokens - getTotalTokens(Collapsed(messages)) <= 0)
        => /\ err' = BudgetError
           /\ pc' = "idle"
           /\ request' = NoRequest
           /\ AssistantsOf(messages') = AssistantsOf(messages) ]_vars

\* callAPI has failed on a list that fills the budget exactly
C7_Witness ==
  /\ op = "callAPI"
  /\ err = BudgetError
  /\ responseTokens > 0
  /\ conversationMaxTokens - getTotalTokens(messages) = 0
  /\ pc = "idle"

(* C8: the limit of every request handed to the API Caller is the smaller  *)
(* of responseTokens and conversationMaxTokens minus the estimated total   *)
(* of the collapsed list, and is at least 1.                               *)
C8_ResponseLimit ==
  [][ (Ran("callAPI") /\ pc' = "awaiting")
        => LET available ==
                 conversationMaxTokens - getTotalTokens(Collapsed(messages))
           IN /\ request'.maxTokens =
                   IF responseTokens <= available THEN responseTokens
                   ELSE available
              /\ request'.maxTokens >= 1 ]_vars

\* a request in flight whose limit is the headroom, less than responseTokens
C8_Witness ==
  /\ pc = "awaiting"
  /\ request.maxTokens = conversationMaxTokens - getTotalTokens(messages)
  /\ request.maxTokens < responseTokens
  /\ Len(SystemsOf(preCall)) = 2

(* C9, as claimed: when callAPI returns a text, the last message of the    *)
(* active list is an assistant message with that text.                     *)
C9_ReplyIsLast ==
  (op = "callAPI" /\ ret.returned)
    => /\ messages # << >>
       /\ messages[Len(messages)].role = "assistant"
       /\ messages[Len(messages)].content = ret.text

(* C9, amended: when callAPI returns a text whose estimate does not exceed *)
(* conversationMaxTokens, the last message of the active list is an        *)
(* assistant message with that text; a text with a larger estimate is      *)
(* still returned, but its message is evicted by the trim of addMessage.   *)
C9_ReplyIsLastWithinBudget ==
  (op = "callAPI" /\ ret.returned)
    => IF getTokenCount(ret.text) <= conversationMaxTokens
       THEN /\ messages # << >>
            /\ messages[Len(messages)] = Message("assistant", ret.text, TRUE)
       ELSE \A i \in 1..Len(messages) :
              messages[i] # Message("assistant", ret.text, TRUE)

\* callAPI has returned and its reply follows the messages that were sent
C9_Witness ==
  /\ op = "callAPI"
  /\ ret.returned
  /\ Len(messages) >= 3
  /\ messages[Len(messages)] = Message("assistant", ret.text, TRUE)

(* C10: every id startNewConversation assigns differs from every           *)
(* conversationId persisted in the user's record.                          *)
C10_NewIdIsFresh ==
  [][ (Ran("startNewConversation") /\ err' = NoError)
        => \A i \in 1..Len(loadUserData(file).conversations) :
             loadUserData(file).conversations[i].conversationId
               # activeConversationId' ]_vars

\* the number a decimal numeral of DecimalOf stands for
NumberOf(id) == CHOOSE n \in 0..13 : DecimalOf(n) = id

\* the largest number of a finite set of naturals, 0 for the empty set
MaxOf(S) == IF S = {} THEN 0 ELSE CHOOSE x \in S : \A y \in S : y <= x

\* the numbers of the conversations of a record
NumbersIn(data) ==
  { NumberOf(data.conversations[i].conversationId) :
      i \in 1..Len(data.conversations) }

\* C11: the id generated for a record is the decimal numeral of one more
\* than the largest of the record's conversation ids read as integers, and
\* "1" for a record without conversations.  The constructor and
\* startNewConversation assign generateConversationId(this.userData).
C11_NextIdIsMaxPlusOne ==
  (op \in {"constructor", "startNewConversation"} /\ err = NoError)
    => /\ activeConversationId = DecimalOf(1 + MaxOf(NumbersIn(userData)))
       /\ (userData.conversations = << >> => activeConversationId = <<"1">>)

\* startNewConversation over ids "12", "2", "9" gave "13"
C11_Witness ==
  /\ op = "startNewConversation"
  /\ Len(userData.conversations) = 3
  /\ userData.conversations[1].conversationId = <<"1","2">>
  /\ userData.conversations[2].conversationId = <<"2">>
  /\ userData.conversations[3].conversationId = <<"9">>
  /\ activeConversationId = <<"1","3">>

\* the user's record as a load reads it from the store
Persisted == loadUserData(file)

\* a conversation with this id is in the record
HasConversation(data, id) ==
  \E i \in 1..Len(data.conversations) :
    data.conversations[i].conversationId = id

\* totalConversations as a load of the document f finds it: the document's
\* count, 0 when there is no document to parse
TotalConversations(f) == IF f.kind = "json" THEN f.totalConversations ELSE 0

\* C12: in every step totalConversations of the persisted record does not
\* decrease; it grows by exactly one in a saveHistory whose active id was not
\* in the record, and is unchanged in every other step, a saveHistory of an
\* already persisted conversation included.
C12_TotalConversationsCounts ==
  [][/\ TotalConversations(file') >= TotalConversations(file)
     /\ TotalConversations(file') =
          IF Ran("saveHistory")
             /\ ~HasConversation(Persisted, activeConversationId)
          THEN TotalConversations(file) + 1
          ELSE TotalConversations(file)
    ]_vars

\* two conversations were persisted by two runs, the second counted
C12_Witness ==
  /\ op = "saveHistory"
  /\ TotalConversations(file) = 2
  /\ Len(Persisted.conversations) = 2

\* C13: saveHistory replaces the messages of the entry that has the active
\* id and nothing else; when there is no such entry it appends exactly one
\* entry with the active id and the active list; every other entry stays.
C13_SaveIsUpsert ==
  [][Ran("saveHistory") =>
       LET old == Persisted.conversations
           new == Persisted'.conversations
       IN IF HasConversation(Persisted, activeConversationId)
          THEN /\ Len(new) = Len(old)
               /\ \A i \in 1..Len(old) :
                    new[i] =
                      IF old[i].conversationId = activeConversationId
                      THEN [old[i] EXCEPT !.messages = messages]
                      ELSE old[i]
          ELSE /\ Len(new) = Len(old) + 1
               /\ SubSeq(new, 1, Len(old)) = old
               /\ new[Len(new)].conversationId = activeConversationId
               /\ new[Len(new)].messages = messages
    ]_vars

\* a second saveHistory of the same conversation: the entry has the list
\* as it is now and the name it was given at the first save
C13_Witness ==
  /\ op = "saveHistory"
  /\ Len(Persisted.conversations) = 1
  /\ Persisted.conversations[1].conversationId = activeConversationId
  /\ Persisted.conversations[1].messages = messages
  /\ Persisted.conversations[1].name = UntitledConversation
  /\ \E i \in 1..Len(messages) : messages[i].role = "user"

\* the (role, content) pairs of a message list
RoleContents(msgs) ==
  [j \in 1..Len(msgs) |-> <<msgs[j].role, msgs[j].content>>]

\* C14: a load that follows a save yields as many conversations as the
\* record saved had and, conversation by conversation, the same sequence of
\* (role, content) pairs.
C14_SaveLoadRoundTrip ==
  [][(op = "saveUserData" /\ Ran("loadUserData")) =>
       /\ Len(userData'.conversations) = Len(userData.conversations)
       /\ \A i \in 1..Len(userData.conversations) :
            RoleContents(userData'.conversations[i].messages)
              = RoleContents(userData.conversations[i].messages)
    ]_vars

\* a record whose messages hold a quote and a backslash was saved and
\* loaded again
C14_Witness ==
  /\ op = "loadUserData"
  /\ file.kind = "json"
  /\ Len(userData.conversations) = 1
  /\ Len(userData.conversations[1].messages) = 2
  /\ userData.conversations[1].messages[1].content = <<"a", "\"", "b">>
  /\ userData.conversations[1].messages[2].content = <<"\\", "n">>

\* C15: loadUserData returns without an error; from a document that is
\* absent or cannot be parsed it returns the empty record, from any other
\* the record the document holds.
C15_LoadNeverRaises ==
  [][Ran("loadUserData") =>
       /\ err' = NoError
       /\ IF file.kind = "json"
          THEN /\ userData'.kind = "json"
               /\ userData'.totalConversations = file.totalConversations
               /\ saveUserData(userData') = file
          ELSE /\ userData'.kind = "json"
               /\ userData'.totalConversations = 0
               /\ userData'.conversations = << >>
    ]_vars

\* the first operation loaded the empty record from a document that is
\* not JSON
C15_Witness ==
  /\ op = "loadUserData"
  /\ operations = 1
  /\ file.kind = "corrupt"
  /\ userData.totalConversations = 0
  /\ userData.conversations = << >>

C17_DeleteKeepsSystemOnly ==
  [][Ran("deleteHistory") =>
       (err' = NoError /\ messages' = SystemsOf(messages))]_vars

\* C17 as the code has it: with an active conversation id deleteHistory
\* leaves exactly the system-role messages, in their order; without one it
\* leaves the list as it is; in both cases it raises nothing.
C17_DeleteKeepsSystemOnlyWhenActive ==
  [][Ran("deleteHistory") =>
       /\ err' = NoError
       /\ activeConversationId # NullId => messages' = SystemsOf(messages)
       /\ activeConversationId = NullId => messages' = messages
    ]_vars

\* the conversation was saved with a user message, and deleteHistory left
\* the system message alone in the active list
C17_Witness ==
  /\ op = "deleteHistory"
  /\ err = NoError
  /\ activeConversationId # NullId
  /\ Len(messages) = 1
  /\ messages[1].role = "system"
  /\ \E i \in 1..Len(Persisted.conversations) :
       /\ Persisted.conversations[i].conversationId = activeConversationId
       /\ Len(Persisted.conversations[i].messages) = 2
       /\ Persisted.conversations[i].messages[1] = messages[1]
       /\ Persisted.conversations[i].messages[2].role = "user"

\* the messages persisted for the conversation id, none when the record has
\* no such conversation
PersistedMessages(id) ==
  IF HasConversation(Persisted, id)
  THEN LET i == CHOOSE k \in 1..Len(Persisted.conversations) :
                  Persisted.conversations[k].conversationId = id
       IN Persisted.conversations[i].messages
  ELSE << >>

\* C18: a getHistory() that follows deleteHistory of the active
\* conversation returns none of that conversation's user or assistant
\* messages.
C18_DeletedHistoryIsGone ==
  [][(/\ op = "deleteHistory"
      /\ activeConversationId # NullId
      /\ Ran("getHistory")
      /\ args'.conversationId = NullId)
     => OthersOf(ret'.history) = << >>]_vars

\* C19: getHistory returns the messages persisted for the id given, or for
\* the active id when none is given; the empty sequence when the record has
\* no such conversation; only the non-system messages, in order, when
\* onlyNonSystem is set; and it changes neither the active list nor the
\* persisted document.
C19_GetHistoryReadsPersisted ==
  [][Ran("getHistory") =>
       LET id == IF args'.conversationId = NullId
                 THEN activeConversationId
                 ELSE args'.conversationId
       IN /\ ~HasConversation(Persisted, id) => ret'.history = << >>
          /\ ret'.history = IF args'.onlyNonSystem
                            THEN OthersOf(PersistedMessages(id))
                            ELSE PersistedMessages(id)
          /\ messages' = messages
          /\ file' = file
          /\ activeConversationId' = activeConversationId
    ]_vars

\* getHistory("1", true) on a manager that has moved on to another list
\* returned the user message persisted for "1" without its system message
C19_Witness ==
  /\ op = "getHistory"
  /\ args.conversationId = <<"1">>
  /\ args.onlyNonSystem
  /\ Len(ret.history) = 1
  /\ ret.history[1].role = "user"
  /\ Len(PersistedMessages(<<"1">>)) = 2
  /\ PersistedMessages(<<"1">>) # messages

\* C20: getHistory(true), on a manager whose active conversation is
\* persisted, returns the non-system messages persisted for the active
\* conversation.
C20_GetHistoryTrueExcludesSystem ==
  [][(/\ Ran("getHistory")
      /\ args'.conversationId = BooleanTrue
      /\ ~args'.onlyNonSystem
      /\ HasConversation(Persisted, activeConversationId))
     => ret'.history = OthersOf(PersistedMessages(activeConversationId))
    ]_vars

\* C21: callAPI, before it computes the budget, leaves of several system
\* messages the first one only, and leaves the non-system messages as they
\* were: the same messages in the same order.
C21_CollapseKeepsFirstSystem ==
  [][Ran("callAPI") =>
       /\ OthersOf(messages') = OthersOf(messages)
       /\ Len(SystemsOf(messages)) > 1 =>
            SystemsOf(messages') = <<FirstSystem(messages)>>
       /\ Len(SystemsOf(messages)) <= 1 => messages' = messages
    ]_vars

\* callAPI was called on a list with two system messages and a user
\* message between them, and went on to the API Caller with the first
\* system message and the user message
C21_Witness ==
  /\ op = "callAPI"
  /\ pc = "awaiting"
  /\ Len(preCall) = 3
  /\ preCall[1].role = "system"
  /\ preCall[2].role = "user"
  /\ preCall[3].role = "system"
  /\ preCall[3] # preCall[1]
  /\ messages = <<preCall[1], preCall[2]>>

\* the content has a character that is not whitespace
NonBlank(content) == \E i \in 1..Len(content) : content[i] \notin Whitespace

\* s is t with some of its elements left out
RECURSIVE IsSubsequence(_, _)
IsSubsequence(s, t) ==
  IF s = << >> THEN TRUE
  ELSE IF t = << >> THEN FALSE
  ELSE IF Head(s) = Head(t) THEN IsSubsequence(Tail(s), Tail(t))
  ELSE IsSubsequence(s, Tail(t))

\* C22: addMessage with a content that is not blank puts exactly one
\* message, with that content and with the role given or "user" when none
\* is given, after the messages of the list: what the list holds afterwards
\* is the earlier list followed by that message, less what trimming left
\* out; and when the estimated total of the earlier list and the message is
\* within conversationMaxTokens nothing is left out, so the list is one
\* message longer and its earlier messages are as they were.
C22_AddMessageAppendsOne ==
  [][(Ran("addMessage") /\ NonBlank(args'.content)) =>
       LET added == [role |-> IF args'.role = Omitted THEN "user"
                              ELSE args'.role,
                     content |-> args'.content, timestamp |-> TRUE]
           pushed == messages \o <<added>>
       IN /\ IsSubsequence(messages', pushed)
          /\ getTotalTokens(pushed) <= conversationMaxTokens =>
               /\ Len(messages') = Len(messages) + 1
               /\ SubSeq(messages', 1, Len(messages)) = messages
               /\ messages'[Len(messages')] = added
    ]_vars

\* addMessage("a b") without a role made the list of system message and
\* one message a list of three, ending in the user message "a b"
C22_Witness ==
  /\ op = "addMessage"
  /\ args.role = Omitted
  /\ args.content = <<"a", " ", "b">>
  /\ Len(messages) = 3
  /\ messages[1].role = "system"
  /\ messages[3] = [role |-> "user", content |-> <<"a", " ", "b">>,
                    timestamp |-> TRUE]

\* the number of messages of msgs with the role
CountOf(msgs, role) ==
  Cardinality({i \in 1..Len(msgs) : msgs[i].role = role})

\* C28: countTurns returns the numbers of user and of assistant messages,
\* system messages not counted, and leaves the list as it is; and the
\* counts are those of the whole conversation, so that a trimHistory that
\* follows does not change what countTurns returns, and an addMessage of a
\* user message that follows makes the user count one more, whatever the
\* trimming evicts.
C28_CountsIndependentOfTrimming ==
  [][/\ Ran("countTurns") =>
          /\ messages' = messages
          /\ ret'.turns.userMessages = CountOf(messages, "user")
          /\ ret'.turns.assistantResponses = CountOf(messages, "assistant")
     /\ (op = "countTurns" /\ Ran("trimHistory")) =>
          /\ CountOf(messages', "user") = ret.turns.userMessages
          /\ CountOf(messages', "assistant") = ret.turns.assistantResponses
     /\ (op = "countTurns" /\ Ran("addMessage")
           /\ args'.role \in {Omitted, "user"}) =>
          /\ CountOf(messages', "user") = ret.turns.userMessages + 1
          /\ CountOf(messages', "assistant") = ret.turns.assistantResponses
    ]_vars

\* the last message of a list that has one
Last(msgs) == msgs[Len(msgs)]

\* C23: setSystem called with a mode other than direct, config and file
\* fails with the invalid-mode error; called in file mode without a path,
\* or with the path of a file that does not exist, it fails with the
\* agent-file error.
C23_SetSystemConfigurationErrors ==
  [][Ran("setSystem") =>
       /\ args'.mode \notin {"direct", "config", "file"} =>
            err' = "Invalid mode. Please use 'direct', 'config', or 'file'."
       /\ (args'.mode = "file"
            /\ (args'.options.agentFilePath = "" \/ ~args'.fileExists)) =>
            err' = "Agent file path is missing or invalid in 'file' mode."
    ]_vars

\* setSystem('file', {agentFilePath}) with a path and no file at it failed
C23_Witness ==
  /\ op = "setSystem"
  /\ args.mode = "file"
  /\ args.options.agentFilePath = "path/to/agent.txt"
  /\ ~args.fileExists
  /\ err = AgentFileError

\* the identifier has no agent file: the configuration names none, or
\* names one that does not exist
NoAgentFile(modelId, fileExists) ==
  loadConfig(modelId).agent_file = "" \/ ~fileExists

C26_DirectOptionsApplied ==
  [][(Ran("setSystem") /\ args'.mode = "direct") =>
       LET o == args'.options
       IN /\ err' = NoError
          /\ "model" \in o.supplied => apiModel' = o.model
          /\ "temperature" \in o.supplied => temperature' = o.temperature
          /\ "conversationMaxTokens" \in o.supplied =>
               conversationMaxTokens' = o.conversationMaxTokens
          /\ "responseTokens" \in o.supplied =>
               responseTokens' = o.responseTokens
          /\ "agentPrompt" \in o.supplied =>
               Last(messages').content = o.agentPrompt
    ]_vars

\* the number of words of a text: its maximal runs of characters that are
\* not whitespace
WordCount(text) ==
  Cardinality({i \in 1..Len(text) :
                 /\ text[i] \notin Whitespace
                 /\ (i = 1 \/ text[i-1] \in Whitespace)})

\* C27: getTokenCount of a text is the number of its whitespace-delimited
\* words, for the empty text and for texts with whitespace at either end
\* as for any other.
C27_EstimateIsWordCount ==
  [][Ran("getTokenCount") => ret'.count = WordCount(args'.content)]_vars

\* C29: loadLatestConversation, when the persisted record has
\* conversations, makes the id and the messages of the last of them the
\* active id and the active list; when it has none it does what
\* startNewConversation does, the TypeError of a manager without a record
\* included; the persisted document is the same afterwards.
C29_LoadLatestConversation ==
  [][Ran("loadLatestConversation") =>
       /\ file' = file
       /\ IF Len(Persisted.conversations) > 0
          THEN /\ err' = NoError
               /\ activeConversationId'
                    = Last(Persisted.conversations).conversationId
               /\ messages' = Last(Persisted.conversations).messages
          ELSE IF userData.kind = "undefined"
          THEN /\ err' = TypeError
               /\ UNCHANGED <<activeConversationId, messages,
                              conversationName>>
          ELSE /\ err' = NoError
               /\ activeConversationId'
                    = DecimalOf(1 + MaxOf(NumbersIn(userData)))
               /\ messages' = << >>
               /\ conversationName'
                    = <<"C","o","n","v","e","r","s","a","t","i","o","n"," ">>
                        \o activeConversationId'
    ]_vars

\* with the conversations "1" and "2" persisted, the manager that had "1"
\* active loaded "2"
C29_Witness ==
  /\ op = "loadLatestConversation"
  /\ err = NoError
  /\ Len(Persisted.conversations) = 2
  /\ Persisted.conversations[1].conversationId = <<"1">>
  /\ activeConversationId = <<"2">>
  /\ messages = Persisted.conversations[2].messages

\* both instances were constructed over the same record: nothing was saved
\* between the two constructions
StartedTogether == second.constructed /\ second.userData = userData

\* C30: two instances of one user constructed before either saves hold the
\* same conversationId, and a saveHistory of either that finds the entry of
\* that id in the document replaces the entry's messages by its own list,
\* adds no entry and raises no error.
C30_LastWriterWins ==
  /\ [](StartedTogether
         => second.activeConversationId = activeConversationId)
  /\ [][/\ Ran("saveHistory") /\ StartedTogether
           /\ HasConversation(Persisted, activeConversationId)
           => /\ err' = NoError
              /\ PersistedMessages(activeConversationId)' = messages
              /\ Len(Persisted.conversations)' = Len(Persisted.conversations)
        /\ Ran("second.saveHistory") /\ StartedTogether
           /\ HasConversation(Persisted, activeConversationId)
           => /\ err' = NoError
              /\ PersistedMessages(activeConversationId)' = second.messages
              /\ Len(Persisted.conversations)' = Len(Persisted.conversations)
       ]_vars

\* the entry was created by the first instance's save, under the name of
\* its "hi", and now holds the list of the second, which has no "hi"
C30_Witness ==
  /\ op = "second.saveHistory"
  /\ err = NoError
  /\ StartedTogether
  /\ second.activeConversationId = activeConversationId
  /\ HasConversation(Persisted, activeConversationId)
  /\ PersistedMessages(activeConversationId) = second.messages
  /\ Len(messages) = 2
  /\ Len(second.messages) = 1
  /\ Last(Persisted.conversations).name = generateConversationName(messages)
  /\ Last(Persisted.conversations).name
       # generateConversationName(second.messages)

\* msgs without its k oldest messages
Drop(msgs, k) == SubSeq(msgs, k + 1, Len(msgs))

IsSuffix(s, t) == Len(s) <= Len(t) /\ Drop(t, Len(t) - Len(s)) = s

\* the part of msgs the budget test of trimHistory is taken over and
\* messages are removed from: msgs without a system message at index 0
Trimmable(msgs) ==
  IF msgs # << >> /\ msgs[1].role = "system" THEN Tail(msgs) ELSE msgs

\* the system message at index 0 of msgs, which the loop never sees
Pinned(msgs) ==
  IF msgs # << >> /\ msgs[1].role = "system" THEN <<msgs[1]>> ELSE << >>

\* before is trimmed to after by removing oldest messages only, and no more
\* of them than the budget test asks for
OldestRemovedWhileOver(before, after, maxTokens) ==
  LET k == Len(before) - Len(after)
  IN /\ k \in 0..Len(Trimmable(before))
     /\ after = Pinned(before) \o Drop(Trimmable(before), k)
     /\ IsSuffix(OthersOf(after), OthersOf(before))
     /\ \A j \in 0..(k - 1) :
          getTotalTokens(Drop(Trimmable(before), j)) > maxTokens
     /\ \/ getTotalTokens(Drop(Trimmable(before), k)) <= maxTokens
        \/ k = Len(Trimmable(before))

\* C31: trimHistory, called by the client or by addMessage after its
\* append, removes oldest messages only: the non-system messages left are a
\* suffix of those of before in the same order, every message removed was
\* removed while the budget test failed, and afterwards the test passes or
\* nothing removable is left.
C31_TrimRemovesOldestOnly ==
  [][/\ Ran("trimHistory")
        => OldestRemovedWhileOver(messages, messages', conversationMaxTokens)
     /\ Ran("addMessage")
        => OldestRemovedWhileOver(
             Append(messages, [role |-> DefaultRole(args'.role),
                               content |-> args'.content,
                               timestamp |-> TRUE]),
             messages', conversationMaxTokens)
    ]_vars

\* trimHistory removed the oldest of two messages and kept the other
C31_Witness ==
  /\ op = "trimHistory"
  /\ Len(OthersOf(preCall)) = 2
  /\ Len(OthersOf(messages)) = 1
  /\ OthersOf(messages)[1] = OthersOf(preCall)[2]
  /\ getTotalTokens(Trimmable(preCall)) > conversationMaxTokens

\* C32: addMessage of a content whose estimate exceeds
\* conversationMaxTokens, on a list with a system message at index 0,
\* leaves that system message alone in the list: the new message is
\* evicted with everything before it.
C32_OversizedMessageEvicted ==
  [][(/\ Ran("addMessage")
      /\ messages # << >>
      /\ messages[1].role = "system"
      /\ getTokenCount(args'.content) > conversationMaxTokens)
       => /\ messages' = <<messages[1]>>
          /\ err' = NoError
    ]_vars

\* addMessage("a b") under a budget of 1: only the system message is left
C32_Witness ==
  /\ op = "addMessage"
  /\ err = NoError
  /\ args.content = <<"a", " ", "b">>
  /\ conversationMaxTokens = 1
  /\ Len(messages) = 1
  /\ messages[1].role = "system"

\* C33: a setSystem call that fails leaves the active list, the systemSet
\* flag, the generation parameters and the agent prompt as they were
\* before the call.
C33_FailedSetSystemChangesNothing ==
  [][(Ran("setSystem") /\ err' # NoError)
       => UNCHANGED <<messages, systemSet, apiModel, temperature,
                      conversationMaxTokens, responseTokens, agentPrompt>>
    ]_vars

\* C34: between operations the estimated total of the non-system messages
\* of the active list is at most conversationMaxTokens.
C34_NonSystemWithinBudget ==
  pc = "idle" => getTotalTokens(OthersOf(messages)) <= conversationMaxTokens

\* C35: in every reachable state systemSet is true exactly when the active
\* list holds a system message, and addSystemMessage called on a list
\* without one puts the default system message at index 0.
C35_SystemSetMeansSystemMessage ==
  /\ [](systemSet <=> SystemsOf(messages) # << >>)
  /\ [][(Ran("addSystemMessage") /\ SystemsOf(messages) = << >>)
          => messages' = <<[role |-> "system", content |-> DefaultPrompt,
                            timestamp |-> FALSE]>> \o messages
       ]_vars

\* C36: in every reachable state the record a load of the document finds,
\* the document having been written by saveHistory only, has as many
\* conversations as its totalConversations says.
C36_TotalIsNumberOfConversations ==
  Persisted.totalConversations = Len(Persisted.conversations)

\* the record holds the conversations "1" and "2", saved by two runs of
\* the program, and counts two
C36_Witness ==
  /\ file.kind = "json"
  /\ Persisted.totalConversations = 2
  /\ Len(Persisted.conversations) = 2
  /\ Persisted.conversations[1].conversationId = <<"1">>
  /\ Persisted.conversations[2].conversationId = <<"2">>

\* the operations of C37 that a client can invoke during the wait
InterleavedOperations ==
  {"addMessage", "startNewConversation", "setActiveConversation",
   "deleteHistory"}

\* C37: when callAPI returns a text after another operation ran during its
\* wait, the active conversation is the one callAPI was invoked on and the
\* active list is the list that was sent with the assistant reply appended
\* directly after it, trimmed as addMessage trims.
C37_ReplyFollowsTheRequest ==
  [][(Returned /\ ret'.returned /\ op \in InterleavedOperations)
       => /\ activeConversationId' = args.conversationId
          /\ OldestRemovedWhileOver(
               Append(Collapsed(preCall),
                      [role |-> "assistant", content |-> ret'.text,
                       timestamp |-> TRUE]),
               messages', conversationMaxTokens)
    ]_vars

====
